---- MODULE Spec2Model ----
(***************************************************************************)
(* Slide-to-podcast pipeline: script segmenter (parseScriptToSegments),    *)
(* synthesis client with retry (generateSingleSpeakerAudio), sequencer     *)
(* (generateSequencedSpeech) and the play handler of the App component.    *)
(*                                                                         *)
(* Time unit: one sample frame at 24 kHz (1 s = 24000 ticks), so that the  *)
(* estimate max(1.5, len/15) s and the audio durations frames/24000 s are  *)
(* both integers.  Floating-point rounding is not modelled.                *)
(***************************************************************************)
EXTENDS Integers, Sequences, FiniteSets, TLC

(***************************************************************************)
(* Bounds of the model                                                     *)
(***************************************************************************)
MaxLen == 3        \* tokens typed after the loaded script in the segmenter check
MaxPage == 2       \* largest page number a slide marker carries

(***************************************************************************)
(* Program constants                                                       *)
(***************************************************************************)
SAMPLE_RATE == 24000     \* ticks per second
CHARS_PER_SEC == 15
WordLen == 12            \* characters of the word token

Max(a, b) == IF a >= b THEN a ELSE b

(***************************************************************************)
(* Script text.  A text is a sequence of tokens <<kind, val>>:             *)
(*   word   a run of WordLen non-blank, non-terminator characters          *)
(*   term   a sentence terminator (one of . ! ? and the full-width ones)   *)
(*   space  a blank other than newline                                     *)
(*   nl     a newline                                                      *)
(*   digit  a decimal digit val                                            *)
(*   label  "<name>:" with name val (0 = Host, 1 = Expert, 2.. = custom)   *)
(*   marker "[SLIDE val]"                                                  *)
(***************************************************************************)
KwHost == 0
KwExpert == 1
Names == {2, 3}                      \* display names a role can be bound to
LabelNames == {KwHost, KwExpert, 2}  \* names that occur as "<name>:" in a text

Tok(k, v) == <<k, v>>
Kind(t) == t[1]
Val(t) == t[2]

Alphabet ==
    {Tok("word", 0), Tok("term", 0), Tok("space", 0), Tok("nl", 0), Tok("digit", 5)}
    \cup {Tok("label", n) : n \in LabelNames}
    \cup {Tok("marker", p) : p \in 0..MaxPage}

\* String.length of the characters a token stands for
TokLen(t) ==
    CASE Kind(t) = "word" -> WordLen
      [] Kind(t) = "label" -> (IF Val(t) = KwHost THEN 5 ELSE IF Val(t) = KwExpert THEN 7 ELSE 2)
      [] Kind(t) = "marker" -> 9
      [] OTHER -> 1

RECURSIVE StrLen(_)
StrLen(s) == IF s = <<>> THEN 0 ELSE TokLen(Head(s)) + StrLen(Tail(s))

IsSpace(t) == Kind(t) \in {"space", "nl"}

\* String.prototype.trim
RECURSIVE TrimLeft(_)
TrimLeft(s) == IF s # <<>> /\ IsSpace(Head(s)) THEN TrimLeft(Tail(s)) ELSE s

RECURSIVE TrimRight(_)
TrimRight(s) ==
    IF s # <<>> /\ IsSpace(s[Len(s)]) THEN TrimRight(SubSeq(s, 1, Len(s) - 1)) ELSE s

Trim(s) == TrimRight(TrimLeft(s))

\* fullText.split(/\[(?:\*\*)?SLIDE\s+(\d+)(?:\*\*)?\]/i): the text between the
\* markers, with the captured digits of each marker as a block of their own
RECURSIVE SplitSlides(_, _)
SplitSlides(s, cur) ==
    IF s = <<>> THEN <<cur>>
    ELSE IF Kind(Head(s)) = "marker"
         THEN <<cur, <<Tok("digit", Val(Head(s)))>> >> \o SplitSlides(Tail(s), <<>>)
         ELSE SplitSlides(Tail(s), Append(cur, Head(s)))

\* /^\d+$/.test(block)
IsDigits(b) == b # <<>> /\ \A i \in 1..Len(b) : Kind(b[i]) = "digit"

\* parseInt(block, 10) of a block of digits
RECURSIVE ParseInt(_)
ParseInt(b) == IF b = <<>> THEN 0 ELSE 10 * ParseInt(SubSeq(b, 1, Len(b) - 1)) + Val(b[Len(b)])

\* block.split('\n')
RECURSIVE SplitLines(_, _)
SplitLines(s, cur) ==
    IF s = <<>> THEN <<cur>>
    ELSE IF Kind(Head(s)) = "nl"
         THEN <<cur>> \o SplitLines(Tail(s), <<>>)
         ELSE SplitLines(Tail(s), Append(cur, Head(s)))

\* the content of a line kept whole, not cut into sentences
SplitSentences_Whole(s, cur) == <<s>>

\* content.split(/(?<=[.!?...])\s+/): cut at every run of blanks that follows
\* a terminator, dropping the run
RECURSIVE SplitSentences(_, _)
SplitSentences(s, cur) ==
    IF s = <<>> THEN <<cur>>
    ELSE IF IsSpace(Head(s)) /\ cur # <<>> /\ Kind(cur[Len(cur)]) = "term"
         THEN <<cur>> \o SplitSentences(TrimLeft(s), <<>>)
         ELSE SplitSentences(Tail(s), Append(cur, Head(s)))

\* hostRegex.test(trimmed) and expertRegex.test(trimmed)
hostRegex(trimmed, hostName) ==
    trimmed # <<>> /\ Kind(Head(trimmed)) = "label" /\ Val(Head(trimmed)) \in {KwHost, hostName}

expertRegex(trimmed, expertName) ==
    trimmed # <<>> /\ Kind(Head(trimmed)) = "label" /\ Val(Head(trimmed)) \in {KwExpert, expertName}

\* Math.max(1.5, cleanSentence.length / CHARS_PER_SEC), in ticks
EstimateDuration(cleanSentence) ==
    Max((3 * SAMPLE_RATE) \div 2, (StrLen(cleanSentence) * SAMPLE_RATE) \div CHARS_PER_SEC)

Segment(slide, spk, txt, st, en) ==
    [slideIndex |-> slide, speaker |-> spk, text |-> txt, startTime |-> st, endTime |-> en]

\* the parser's local variables
ParseState(slide, spk, time, segs) ==
    [currentSlideIndex |-> slide, currentSpeaker |-> spk, runningTime |-> time, segments |-> segs]

\* PushSentences with the running time advanced by the unfloored length estimate
RECURSIVE PushSentences_NoFloor(_, _)
PushSentences_NoFloor(rawSentences, st) ==
    IF rawSentences = <<>> THEN st
    ELSE LET cleanSentence == Trim(Head(rawSentences)) IN
         IF cleanSentence = <<>> THEN PushSentences_NoFloor(Tail(rawSentences), st)
         ELSE LET duration == EstimateDuration(cleanSentence) IN
              PushSentences_NoFloor(Tail(rawSentences),
                  ParseState(st.currentSlideIndex, st.currentSpeaker,
                      st.runningTime + (StrLen(cleanSentence) * SAMPLE_RATE) \div CHARS_PER_SEC,
                      Append(st.segments,
                          Segment(st.currentSlideIndex, st.currentSpeaker, cleanSentence,
                                  st.runningTime, st.runningTime + duration))))

\* for (const sentence of rawSentences) { ... segments.push(...) }
RECURSIVE PushSentences(_, _)
PushSentences(rawSentences, st) ==
    IF rawSentences = <<>> THEN st
    ELSE LET cleanSentence == Trim(Head(rawSentences)) IN
         IF cleanSentence = <<>> THEN PushSentences(Tail(rawSentences), st)
         ELSE LET duration == EstimateDuration(cleanSentence) IN
              PushSentences(Tail(rawSentences),
                  ParseState(st.currentSlideIndex, st.currentSpeaker, st.runningTime + duration,
                      Append(st.segments,
                          Segment(st.currentSlideIndex, st.currentSpeaker, cleanSentence,
                                  st.runningTime, st.runningTime + duration))))

\* a line without a label attributed to the Host when no speaker has been seen
LineSpeaker_DefaultHost(trimmed, cur, hostName, expertName) ==
    IF hostRegex(trimmed, hostName) THEN "Host"
    ELSE IF expertRegex(trimmed, expertName) THEN "Expert"
    ELSE IF cur = "null" THEN "Host" ELSE cur

\* the speaker a line switches to (or leaves)
LineSpeaker(trimmed, cur, hostName, expertName) ==
    IF hostRegex(trimmed, hostName) THEN "Host"
    ELSE IF expertRegex(trimmed, expertName) THEN "Expert"
    ELSE cur

\* body of  for (const line of lines)
ParseLine(line, st, hostName, expertName) ==
    LET trimmed == Trim(line) IN
    IF trimmed = <<>> THEN st
    ELSE LET spk == LineSpeaker(trimmed, st.currentSpeaker, hostName, expertName)
             content == IF hostRegex(trimmed, hostName) \/ expertRegex(trimmed, expertName)
                        THEN Trim(Tail(trimmed)) ELSE trimmed
             st1 == ParseState(st.currentSlideIndex, spk, st.runningTime, st.segments)
         IN IF spk # "null" /\ content # <<>>
            THEN PushSentences(SplitSentences(content, <<>>), st1)
            ELSE st1

RECURSIVE ParseLines(_, _, _, _)
ParseLines(lines, st, hostName, expertName) ==
    IF lines = <<>> THEN st
    ELSE ParseLines(Tail(lines), ParseLine(Head(lines), st, hostName, expertName),
                    hostName, expertName)

\* the page number converted without the clamp
SlideIndexOfPage_NoClamp(pageNum) == pageNum - 1

\* currentSlideIndex = Math.max(0, pageNum - 1)
SlideIndexOfPage(pageNum) == Max(0, pageNum - 1)

\* body of  for (let i = 0; i < slideBlocks.length; i++)
RECURSIVE ParseBlocks(_, _, _, _)
ParseBlocks(slideBlocks, st, hostName, expertName) ==
    IF slideBlocks = <<>> THEN st
    ELSE LET block == Head(slideBlocks) IN
         IF IsDigits(block)
         THEN ParseBlocks(Tail(slideBlocks),
                  ParseState(SlideIndexOfPage(ParseInt(block)), st.currentSpeaker,
                             st.runningTime, st.segments),
                  hostName, expertName)
         ELSE ParseBlocks(Tail(slideBlocks),
                  ParseLines(SplitLines(block, <<>>), st, hostName, expertName),
                  hostName, expertName)

parseScriptToSegments(fullText, hostName, expertName) ==
    ParseBlocks(SplitSlides(fullText, <<>>), ParseState(0, "null", 0, <<>>),
                hostName, expertName).segments

VARIABLES
    pText,        \* segmenter check: the script text
    pHost,        \* segmenter check: display name bound to the Host role
    pExpert,      \* segmenter check: display name bound to the Expert role
    pSegments,    \* segmenter check: parseScriptToSegments(pText, pHost, pExpert)
    pTyped,       \* segmenter check: number of tokens typed so far
    pMerged,      \* segmenter check: the merge step applied to pSegments
    pRemerged     \* segmenter check: the merge step applied to pMerged

pvars == <<pText, pHost, pExpert, pSegments, pTyped, pMerged, pRemerged>>

VARIABLES
    speechRuns,   \* cancellable play handler: generateSpeech calls awaited, with their tokens
    abandoned     \* history: tokens of the runs that returned on the staleness test

cvars == <<speechRuns, abandoned>>

VARIABLES
    currentTime,          \* audioElemRef.current.currentTime, in ticks
    activeSegmentIndex,   \* useState: index of the highlighted segment, -1 for none
    activeSlideIndex      \* useState: index of the slide shown

svars == <<currentTime, activeSegmentIndex, activeSlideIndex>>

VARIABLES
    cSample,      \* codec check: a 16-bit sample of the provider's audio
    cFloat,       \* codec check: the float decodeAudioData makes of it
    cPcm,         \* codec check: None or Some(the 16-bit value the float is encoded to)
    cOut,         \* codec check: None or Some(the float that value decodes to)
    wSamples,     \* WAV check: the sample bytes
    wRate,        \* WAV check: the sample rate
    wFile         \* WAV check: None or Some(the bytes of the file createWavBlob builds)

kvars == <<cSample, cFloat, cPcm, cOut, wSamples, wRate, wFile>>


(***************************************************************************)
(* Merge step of generateSequencedSpeech                                   *)
(***************************************************************************)
SPACE == Tok("space", 0)

\* the merged text put together with the later sentence first
RECURSIVE MergeLoop_Prepend(_, _, _)
MergeLoop_Prepend(rest, current, acc) ==
    IF rest = <<>> THEN Append(acc, current)
    ELSE LET next == Head(rest) IN
         IF next.speaker = current.speaker /\ next.slideIndex = current.slideIndex
         THEN MergeLoop_Prepend(Tail(rest),
                  [current EXCEPT !.text = (next.text \o <<SPACE>>) \o @], acc)
         ELSE MergeLoop_Prepend(Tail(rest), next, Append(acc, current))

\* a segment compared with the raw segment before it: the running segment is
\* restarted after every merge
RECURSIVE MergeLoop_Pairs(_, _, _)
MergeLoop_Pairs(rest, current, acc) ==
    IF rest = <<>> THEN Append(acc, current)
    ELSE LET next == Head(rest) IN
         IF next.speaker = current.speaker /\ next.slideIndex = current.slideIndex
         THEN IF Tail(rest) = <<>>
              THEN Append(acc, [current EXCEPT !.text = (@ \o <<SPACE>>) \o next.text])
              ELSE MergeLoop_Pairs(Tail(Tail(rest)), Head(Tail(rest)),
                       Append(acc, [current EXCEPT !.text = (@ \o <<SPACE>>) \o next.text]))
         ELSE MergeLoop_Pairs(Tail(rest), next, Append(acc, current))

\* segments merged on equal speaker alone, across slides
RECURSIVE MergeLoop_SpeakerOnly(_, _, _)
MergeLoop_SpeakerOnly(rest, current, acc) ==
    IF rest = <<>> THEN Append(acc, current)
    ELSE LET next == Head(rest) IN
         IF next.speaker = current.speaker
         THEN MergeLoop_SpeakerOnly(Tail(rest),
                  [current EXCEPT !.text = (@ \o <<SPACE>>) \o next.text], acc)
         ELSE MergeLoop_SpeakerOnly(Tail(rest), next, Append(acc, current))

\* the loop  for (let i = 1; i < rawSegments.length; i++)  with its running segment
RECURSIVE MergeLoop(_, _, _)
MergeLoop(rest, current, acc) ==
    IF rest = <<>> THEN Append(acc, current)
    ELSE LET next == Head(rest) IN
         IF next.speaker = current.speaker /\ next.slideIndex = current.slideIndex
         THEN MergeLoop(Tail(rest), [current EXCEPT !.text = (@ \o <<SPACE>>) \o next.text], acc)
         ELSE MergeLoop(Tail(rest), next, Append(acc, current))

\* no merging: every raw segment its own unit
MergeSegments_Identity(rawSegments) == rawSegments

MergeSegments(rawSegments) ==
    IF Len(rawSegments) > 0 THEN MergeLoop(Tail(rawSegments), Head(rawSegments), <<>>) ELSE <<>>

\* { ...rawSegments[k] } replaced by the object itself: current is the caller's object
Spread_Alias(objs, k) == [ref |-> k, val |-> objs[k]]

\* { ...rawSegments[k] }: a new object with the fields of the k-th one; ref is the
\* position of the caller's object a reference points at, 0 for a new object
Spread(objs, k) == [ref |-> 0, val |-> objs[k]]

\* the merge loop on the caller's objects: raw holds their fields as the loop
\* leaves them, current.text += " " + next.text writes through the reference
RECURSIVE MergeObjectsLoop(_, _, _, _)
MergeObjectsLoop(raw, i, current, merged) ==
    IF i > Len(raw) THEN [raw |-> raw, merged |-> Append(merged, current.val)]
    ELSE LET next == raw[i] IN
         IF next.speaker = current.val.speaker /\ next.slideIndex = current.val.slideIndex
         THEN LET txt == (current.val.text \o <<SPACE>>) \o next.text
                  raw1 == IF current.ref = 0 THEN raw
                          ELSE [raw EXCEPT ![current.ref].text = txt]
              IN MergeObjectsLoop(raw1, i + 1, [current EXCEPT !.val.text = txt], merged)
         ELSE MergeObjectsLoop(raw, i + 1, Spread(raw, i), Append(merged, current.val))

\* lines 240-255 on the caller's objects: what the array passed in holds afterwards
\* and the merged list
MergeObjects(rawSegments) ==
    IF Len(rawSegments) > 0
    THEN MergeObjectsLoop(rawSegments, 2, Spread(rawSegments, 1), <<>>)
    ELSE [raw |-> rawSegments, merged |-> <<>>]

\* the loop without  if (!text) continue : no unit is skipped
NextUnit_NoSkip(merged, i) == IF i <= Len(merged) THEN i ELSE 0

\* position of the first unit at or after i that the loop does not skip
\* (if (!text) continue), 0 when there is none
NextUnit(merged, i) ==
    IF \E j \in i..Len(merged) : Trim(merged[j].text) # <<>>
    THEN CHOOSE j \in i..Len(merged) :
            /\ Trim(merged[j].text) # <<>>
            /\ \A k \in i..(j - 1) : Trim(merged[k].text) = <<>>
    ELSE 0

\* every remaining unit requested at once, none awaited
IssueFrom_All(merged, i) == {j \in i..Len(merged) : Trim(merged[j].text) # <<>>}

\* the units whose request is issued when the loop reaches position i:
\* the loop awaits each generateSingleSpeakerAudio call before it goes on
IssueFrom(merged, i) == IF NextUnit(merged, i) = 0 THEN {} ELSE {NextUnit(merged, i)}

\* the end time stamped without the offset
StampSegment_Relative(segment, offset, duration) ==
    [segment EXCEPT !.startTime = offset, !.endTime = duration]

\* finalSegments.push({...segment, startTime: currentOffset, endTime: currentOffset + duration})
StampSegment(segment, offset, duration) ==
    [segment EXCEPT !.startTime = offset, !.endTime = offset + duration]

RECURSIVE SumSeq(_)
SumSeq(s) == IF s = <<>> THEN 0 ELSE Head(s) + SumSeq(Tail(s))

\* concatenateAudioBuffers: length of the combined buffer
concatenateAudioBuffers(buffers) == SumSeq(buffers)

(***************************************************************************)
(* Retry policy of generateSingleSpeakerAudio                              *)
(***************************************************************************)
maxRetries == 10

\* outcomes of one request other than decodable audio
ErrKinds == {"rate", "busy", "other", "text", "text429", "noaudio", "decode"}

isRateLimit(e) == e = "rate"
isServerBusy(e) == e = "busy"
Transient(e) == isRateLimit(e) \/ isServerBusy(e)

\* the retry test without the server-busy case
ShouldRetry_RateOnly(e, att) == isRateLimit(e) /\ att <= maxRetries

\* the retry test with a strict comparison
ShouldRetry_Strict(e, att) == (isRateLimit(e) \/ isServerBusy(e)) /\ att < maxRetries

\* the retry test without the error classification
ShouldRetry_Any(e, att) == att <= maxRetries

\* the retry test with the cap one higher
ShouldRetry_OneMore(e, att) == (isRateLimit(e) \/ isServerBusy(e)) /\ att <= maxRetries + 1

\* (isRateLimit || isServerBusy) && attempt <= maxRetries, attempt already incremented
ShouldRetry(e, att) == (isRateLimit(e) \/ isServerBusy(e)) /\ att <= maxRetries

\* Math.random() * 1000 in milliseconds: the least value and the largest whole one
Jitters == {0, 999}

\* Math.pow(2, n)
RECURSIVE Pow2(_)
Pow2(n) == IF n = 0 THEN 1 ELSE 2 * Pow2(n - 1)

\* the same base delay for every retry
BackoffDelay_Constant(att, jitter) == 1000 + jitter

\* const delay = Math.pow(2, attempt) * 1000 + (Math.random() * 1000), in milliseconds
BackoffDelay(att, jitter) == Pow2(att) * 1000 + jitter


(***************************************************************************)
(* App component (the version whose play handler drives                    *)
(* generateSequencedSpeech) and one synthesis run                          *)
(***************************************************************************)
MaxFrames == 2     \* longest audio the provider returns for one unit, in frames
MaxGen == 1        \* synthesis runs started in one behaviour

None == <<>>
Some(x) == <<x>>

W == Tok("word", 0)
T == Tok("term", 0)
NL == Tok("nl", 0)
LH == Tok("label", KwHost)
LE == Tok("label", KwExpert)
M(p) == Tok("marker", p)

\* "[SLIDE 1]\nHost: Hello. Welcome.\nExpert: Hi there.\n[SLIDE 2]\nHost: Let's continue."
ScriptScenario ==
    <<M(1), NL, LH, SPACE, W, T, SPACE, W, T, NL, LE, SPACE, W, SPACE, W, T, NL,
      M(2), NL, LH, SPACE, W, SPACE, W, T>>
\* "[SLIDE 2]\nHost: Hello.\n[SLIDE 1]\nExpert: Hi."
ScriptBackwards == <<M(2), NL, LH, SPACE, W, T, NL, M(1), NL, LE, SPACE, W, T>>
\* "Hello there."  (no speaker label)
ScriptUnlabeled == <<W, SPACE, W, T>>

Scripts == {<<>>, ScriptScenario, ScriptBackwards, ScriptUnlabeled}

\* voices of the voice picker (INTRO_STYLES[0].defaultVoice and one other)
Voices == {0, 1}

VARIABLES
    text, hostName, expertName,   \* useState: script text and name bindings
    selectedVoice,                \* useState: voice the next run is synthesized with
    segments,                     \* useState: segment list shown and used for sync
    downloadData,                 \* useState: stored final audio, None or Some(record)
    isGenerating, isPlaying,      \* useState flags
    error,                        \* useState: "none", "quota" or "generic"
    generationId,                 \* generationIdRef.current
    audioElem,                    \* audioElemRef.current, None or Some(record)
    seqPc,                        \* where the run of handlePlay is suspended
    currentGenId,                 \* handlePlay: token captured by the run
    rawSegments,                  \* generateSequencedSpeech: its argument
    mergedSegments, unitIdx,      \* generateSequencedSpeech: merged list, loop position
    audioBuffers, finalSegments,  \* generateSequencedSpeech: results so far
    currentOffset,                \* generateSequencedSpeech: running time cursor
    attempt,                      \* generateSingleSpeakerAudio: failures caught so far
    pending,                      \* outcome carried across the await of a context close
    inFlight,                     \* units with a provider request outstanding
    openCtx,                      \* audio contexts opened and not yet closed
    issued,                       \* history: unit of every request issued by the run
    resolved,                     \* history: units whose client call has ended
    failedUnits,                  \* history: units whose client call threw
    call,                         \* history: counters of the client call in progress
    lastCall,                     \* history: None or Some(record) of the last ended call
    seqResult                     \* history: what the last ended run returned

appvars == <<text, hostName, expertName, selectedVoice, segments, downloadData, isGenerating, isPlaying,
             error, generationId, audioElem>>
runvars == <<seqPc, currentGenId, rawSegments, mergedSegments, unitIdx, audioBuffers,
             finalSegments, currentOffset, attempt, pending, inFlight, openCtx>>
histvars == <<issued, resolved, failedUnits, call, lastCall, seqResult>>
vars == <<pvars, svars, kvars, cvars, appvars, runvars, histvars>>

NewCall == [requests |-> 0, sleeps |-> 0, transient |-> 0, nonTransient |-> 0, delay |-> 0]

AppInit ==
    /\ text = <<>>
    /\ hostName = 2
    /\ expertName = 3
    /\ selectedVoice = 0
    /\ segments = <<>>
    /\ downloadData = None
    /\ isGenerating = FALSE
    /\ isPlaying = FALSE
    /\ error = "none"
    /\ generationId = 0
    /\ audioElem = None

RunInit ==
    /\ seqPc = "idle"
    /\ currentGenId = 0
    /\ rawSegments = <<>>
    /\ mergedSegments = <<>>
    /\ unitIdx = 0
    /\ audioBuffers = <<>>
    /\ finalSegments = <<>>
    /\ currentOffset = 0
    /\ attempt = 0
    /\ pending = None
    /\ inFlight = {}
    /\ openCtx = {}
    /\ issued = <<>>
    /\ resolved = {}
    /\ failedUnits = {}
    /\ call = NewCall
    /\ lastCall = None
    /\ seqResult = None

ParseIdle ==
    /\ pText = <<>>
    /\ pHost = 2
    /\ pExpert = 3
    /\ pSegments = <<>>
    /\ pTyped = 0
    /\ pMerged = <<>>
    /\ pRemerged = <<>>

CancelIdle ==
    /\ speechRuns = {}
    /\ abandoned = {}

SyncIdle ==
    /\ currentTime = 0
    /\ activeSegmentIndex = -1
    /\ activeSlideIndex = 0

CodecIdle ==
    /\ cSample = 0
    /\ cFloat = 0
    /\ cPcm = None
    /\ cOut = None
    /\ wSamples = <<>>
    /\ wRate = SAMPLE_RATE
    /\ wFile = None


(***************************************************************************)
(* One run: generateSequencedSpeech and the generateSingleSpeakerAudio     *)
(* call it awaits, as functions on the record of the run's locals          *)
(***************************************************************************)
Run ==
    [seqPc |-> seqPc, mergedSegments |-> mergedSegments, unitIdx |-> unitIdx,
     audioBuffers |-> audioBuffers, finalSegments |-> finalSegments,
     currentOffset |-> currentOffset, attempt |-> attempt, pending |-> pending,
     inFlight |-> inFlight, openCtx |-> openCtx, issued |-> issued, resolved |-> resolved,
     failedUnits |-> failedUnits, call |-> call, lastCall |-> lastCall]

Assign(r) ==
    /\ seqPc' = r.seqPc
    /\ mergedSegments' = r.mergedSegments
    /\ unitIdx' = r.unitIdx
    /\ audioBuffers' = r.audioBuffers
    /\ finalSegments' = r.finalSegments
    /\ currentOffset' = r.currentOffset
    /\ attempt' = r.attempt
    /\ pending' = r.pending
    /\ inFlight' = r.inFlight
    /\ openCtx' = r.openCtx
    /\ issued' = r.issued
    /\ resolved' = r.resolved
    /\ failedUnits' = r.failedUnits
    /\ call' = r.call
    /\ lastCall' = r.lastCall

Ok(frames) == [kind |-> "ok", err |-> "none", frames |-> frames]
Err(e) == [kind |-> "error", err |-> e, frames |-> 0]

EndedCall(r, result, e) ==
    [unit |-> r.unitIdx, result |-> result, err |-> e, attempt |-> r.attempt,
     requests |-> r.call.requests, sleeps |-> r.call.sleeps,
     transient |-> r.call.transient, nonTransient |-> r.call.nonTransient]

\* history of the requests: the units in the order of their requests, a unit
\* that is requested several times in a row listed once
Issue(log, u) == IF log # <<>> /\ log[Len(log)] = u THEN log ELSE Append(log, u)

\* the call's context created before the request, ahead of the retry loop
IssueRequest_OpensContext(r, u) ==
    [r EXCEPT !.seqPc = "request", !.unitIdx = u, !.attempt = 0, !.pending = None,
              !.inFlight = @ \cup IssueFrom(r.mergedSegments, u),
              !.issued = Issue(@, u), !.lastCall = None,
              !.openCtx = @ \cup {"call"},
              !.call = [NewCall EXCEPT !.requests = 1]]

\* await ai.models.generateContent(...) of a fresh generateSingleSpeakerAudio call
IssueRequest(r, u) ==
    [r EXCEPT !.seqPc = "request", !.unitIdx = u, !.attempt = 0, !.pending = None,
              !.inFlight = @ \cup IssueFrom(r.mergedSegments, u),
              !.issued = Issue(@, u), !.lastCall = None,
              !.call = [NewCall EXCEPT !.requests = 1]]

\* the pacing sleep taken before every unit, the first one included
ContinueLoop_PaceAlways(r, i) ==
    LET u == NextUnit(r.mergedSegments, i) IN
    IF u = 0
    THEN [r EXCEPT !.seqPc = "closeSeq",
                   !.pending = Some(IF Len(r.audioBuffers) = 0 THEN Err("empty")
                                    ELSE Ok(concatenateAudioBuffers(r.audioBuffers)))]
    ELSE [r EXCEPT !.seqPc = "pace", !.unitIdx = u, !.pending = None]

\* the for loop of generateSequencedSpeech, resumed at position i, up to its next await
ContinueLoop(r, i) ==
    LET u == NextUnit(r.mergedSegments, i) IN
    IF u = 0
    THEN [r EXCEPT !.seqPc = "closeSeq",
                   !.pending = Some(IF Len(r.audioBuffers) = 0 THEN Err("empty")
                                    ELSE Ok(concatenateAudioBuffers(r.audioBuffers)))]
    ELSE IF Len(r.audioBuffers) > 0
         THEN [r EXCEPT !.seqPc = "pace", !.unitIdx = u, !.pending = None]
         ELSE IssueRequest(r, u)

\* generateSequencedSpeech up to its first await
StartSequence(raw) ==
    ContinueLoop(
        [seqPc |-> "idle", mergedSegments |-> MergeSegments(raw), unitIdx |-> 0,
         audioBuffers |-> <<>>, finalSegments |-> <<>>, currentOffset |-> 0,
         attempt |-> 0, pending |-> None, inFlight |-> {}, openCtx |-> {"seq"},
         issued |-> <<>>, resolved |-> {}, failedUnits |-> {}, call |-> NewCall,
         lastCall |-> lastCall], 1)

\* lines 281-290: the call returned audio of `frames` frames
UnitSucceeded(r, frames) ==
    ContinueLoop(
        [r EXCEPT !.audioBuffers = Append(@, frames),
                  !.finalSegments =
                      Append(@, StampSegment(r.mergedSegments[r.unitIdx], r.currentOffset, frames)),
                  !.currentOffset = @ + frames,
                  !.resolved = @ \cup {r.unitIdx},
                  !.attempt = 0, !.call = NewCall,
                  !.lastCall = Some(EndedCall(r, "ok", "none"))],
        r.unitIdx + 1)

\* the failed unit skipped instead of rethrown
CatchUnitError_Continue(e) == "continue"

\* catch (e) { console.error(...); throw e; } around the call
CatchUnitError(e) == "throw"

\* the call threw e
UnitFailed(r, e) ==
    LET r1 == [r EXCEPT !.resolved = @ \cup {r.unitIdx},
                        !.failedUnits = @ \cup {r.unitIdx},
                        !.attempt = 0, !.call = NewCall,
                        !.lastCall = Some(EndedCall(r, "error", e))]
    IN IF CatchUnitError(e) = "throw"
       THEN [r1 EXCEPT !.seqPc = "closeSeq", !.pending = Some(Err(e))]
       ELSE ContinueLoop(r1, r.unitIdx + 1)

\* catch (error) of generateSingleSpeakerAudio; jitter is what Math.random() * 1000
\* gives when the delay is computed
CatchError(r, e, jitter) ==
    LET att == r.attempt + 1
        c == IF Transient(e) THEN [r.call EXCEPT !.transient = @ + 1]
             ELSE [r.call EXCEPT !.nonTransient = @ + 1]
    IN IF ShouldRetry(e, att)
       THEN [r EXCEPT !.seqPc = "backoff", !.attempt = att, !.pending = None,
                      !.call = [c EXCEPT !.sleeps = @ + 1,
                                         !.delay = BackoffDelay(att, jitter)]]
       ELSE UnitFailed([r EXCEPT !.attempt = att, !.call = c], e)

\* the values Math.random() * 1000 can take where the catch block draws it: the
\* delay is computed only when the error is retried
DrawnJitters(r, e) == IF ShouldRetry(e, r.attempt + 1) THEN Jitters ELSE {0}

\* the finally block left out: the context stays open
CloseContext_Leak(open, ctx) == open

\* finally { await outputAudioContext.close(); }
CloseContext(open, ctx) == open \ {ctx}

\* the staleness test left out
IsStale_Never(currentId, currentRef) == FALSE

\* currentGenId !== generationIdRef.current
IsStale(currentId, currentRef) == currentId # currentRef

\* the quota test of handlePlay's catch
IsQuotaError(e) == e \in {"rate", "text429"}

(***************************************************************************)
(* Actions                                                                 *)
(***************************************************************************)
AudioPausedMidway == audioElem # None /\ audioElem[1].paused /\ audioElem[1].started

\* textarea onChange and the re-parse effect
EditText ==
    /\ \E s \in Scripts \ {text} :
        /\ text' = s
        /\ segments' = IF s # <<>> THEN parseScriptToSegments(s, hostName, expertName)
                       ELSE segments
    /\ downloadData' = None
    /\ UNCHANGED <<selectedVoice, hostName, expertName, isGenerating, isPlaying, error, generationId,
                   audioElem, pvars, svars, kvars, cvars, runvars, histvars, currentGenId>>

\* the re-parse effect on [text, hostName, expertName], for the text t and the
\* bindings h, e: the segments and the download data it leaves
ReparseEffect(t, h, e, segs, dl) ==
    IF t # <<>> THEN [segments |-> parseScriptToSegments(t, h, e), downloadData |-> None]
    ELSE [segments |-> segs, downloadData |-> dl]

\* Host name input onChange and the re-parse effect
ChangeHostName ==
    /\ \E n \in Names \ {hostName} :
        /\ hostName' = n
        /\ LET eff == ReparseEffect(text, n, expertName, segments, downloadData) IN
           /\ segments' = eff.segments
           /\ downloadData' = eff.downloadData
    /\ UNCHANGED <<text, expertName, selectedVoice, isGenerating, isPlaying, error,
                   generationId, audioElem, pvars, svars, kvars, cvars, runvars, histvars>>

\* Expert name input onChange and the re-parse effect
ChangeExpertName ==
    /\ \E n \in Names \ {expertName} :
        /\ expertName' = n
        /\ LET eff == ReparseEffect(text, hostName, n, segments, downloadData) IN
           /\ segments' = eff.segments
           /\ downloadData' = eff.downloadData
    /\ UNCHANGED <<text, hostName, selectedVoice, isGenerating, isPlaying, error,
                   generationId, audioElem, pvars, svars, kvars, cvars, runvars, histvars>>

\* ConfigurationModal onVoiceChange={setSelectedVoice} and SystemPromptModal onSave
ChangeVoice ==
    /\ \E v \in Voices \ {selectedVoice} : selectedVoice' = v
    /\ UNCHANGED <<text, hostName, expertName, segments, downloadData, isGenerating,
                   isPlaying, error, generationId, audioElem, pvars, svars, kvars, cvars, runvars, histvars>>

\* handleStyleChange: the style's default voice, error and download data reset
ChangeStyle ==
    /\ \E v \in Voices : selectedVoice' = v
    /\ error' = "none"
    /\ downloadData' = None
    /\ UNCHANGED <<text, hostName, expertName, segments, isGenerating, isPlaying,
                   generationId, audioElem, pvars, svars, kvars, cvars, runvars, histvars>>

\* handlePlay while playing: pause
PlayPause ==
    /\ isPlaying
    /\ audioElem' = IF audioElem = None THEN None
                    ELSE Some([audioElem[1] EXCEPT !.paused = TRUE])
    /\ isPlaying' = FALSE
    /\ UNCHANGED <<selectedVoice, text, hostName, expertName, segments, downloadData, isGenerating, error,
                   generationId, pvars, svars, kvars, cvars, runvars, histvars>>

\* handlePlay with a paused element whose currentTime > 0: resume
PlayResume ==
    /\ ~isPlaying
    /\ AudioPausedMidway
    /\ audioElem' = Some([audioElem[1] EXCEPT !.paused = FALSE])
    /\ isPlaying' = TRUE
    /\ UNCHANGED <<selectedVoice, text, hostName, expertName, segments, downloadData, isGenerating, error,
                   generationId, pvars, svars, kvars, cvars, runvars, histvars>>

\* handlePlay with stored download data: play it again
PlayStored ==
    /\ ~isPlaying
    /\ ~AudioPausedMidway
    /\ ~isGenerating
    /\ downloadData # None /\ Trim(text) # <<>>
    /\ audioElem' = Some([paused |-> FALSE, started |-> FALSE, src |-> downloadData[1].src])
    /\ currentTime' = 0
    /\ isPlaying' = TRUE
    /\ UNCHANGED <<selectedVoice, text, hostName, expertName, segments, downloadData, isGenerating, error,
                   generationId, activeSegmentIndex, activeSlideIndex, pvars, kvars, cvars, runvars, histvars>>

\* handlePlay starting a synthesis run, up to its first await
StartRun ==
    /\ ~isPlaying
    /\ ~AudioPausedMidway
    /\ ~isGenerating
    /\ ~(downloadData # None /\ Trim(text) # <<>>)
    /\ generationId < MaxGen
    /\ generationId' = generationId + 1
    /\ LET currentSegments == parseScriptToSegments(text, hostName, expertName) IN
       IF Len(currentSegments) = 0
       THEN /\ error' = "generic"
            /\ isGenerating' = FALSE
            /\ UNCHANGED <<runvars, histvars>>
       ELSE /\ error' = "none"
            /\ isGenerating' = TRUE
            /\ currentGenId' = generationId + 1
            /\ rawSegments' = currentSegments
            /\ seqResult' = None
            /\ Assign(StartSequence(currentSegments))
    /\ UNCHANGED <<selectedVoice, text, hostName, expertName, segments, downloadData, isPlaying, audioElem,
                   pvars, svars, kvars, cvars>>

\* the provider answers the outstanding request
Respond ==
    /\ seqPc = "request"
    /\ unitIdx \in inFlight
    /\ LET r == [Run EXCEPT !.inFlight = @ \ {unitIdx}] IN
       \/ \E f \in 1..MaxFrames :
            Assign([r EXCEPT !.seqPc = "closeCall", !.openCtx = @ \cup {"call"},
                             !.pending = Some(Ok(f))])
       \/ Assign([r EXCEPT !.seqPc = "closeCall", !.openCtx = @ \cup {"call"},
                           !.pending = Some(Err("decode"))])
       \/ \E e \in ErrKinds \ {"decode"} :
            \E jitter \in DrawnJitters(r, e) : Assign(CatchError(r, e, jitter))
    /\ UNCHANGED <<appvars, pvars, svars, kvars, cvars, currentGenId, rawSegments, seqResult>>

\* await outputAudioContext.close() in the finally of generateSingleSpeakerAudio
CloseCallDone ==
    /\ seqPc = "closeCall"
    /\ LET r == [Run EXCEPT !.openCtx = CloseContext(@, "call"), !.pending = None] IN
       IF pending[1].kind = "ok"
       THEN Assign(UnitSucceeded(r, pending[1].frames))
       ELSE \E jitter \in DrawnJitters(r, pending[1].err) :
                Assign(CatchError(r, pending[1].err, jitter))
    /\ UNCHANGED <<appvars, pvars, svars, kvars, cvars, currentGenId, rawSegments, seqResult>>

\* await sleep(delay) of the retry is over: next request of the same call
BackoffDone ==
    /\ seqPc = "backoff"
    /\ Assign([Run EXCEPT !.seqPc = "request",
                          !.inFlight = @ \cup {unitIdx},
                          !.issued = Issue(@, unitIdx),
                          !.call = [@ EXCEPT !.requests = @ + 1]])
    /\ UNCHANGED <<appvars, pvars, svars, kvars, cvars, currentGenId, rawSegments, seqResult>>

\* await sleep(1000) between two units is over
PaceDone ==
    /\ seqPc = "pace"
    /\ Assign(IssueRequest(Run, unitIdx))
    /\ UNCHANGED <<appvars, pvars, svars, kvars, cvars, currentGenId, rawSegments, seqResult>>

\* await outputAudioContext.close() in the finally of generateSequencedSpeech,
\* then the rest of handlePlay
CloseSeqDone ==
    /\ seqPc = "closeSeq"
    /\ Assign([Run EXCEPT !.seqPc = "idle", !.openCtx = CloseContext(@, "seq"), !.pending = None,
                          !.lastCall = None])
    /\ IF pending[1].kind = "ok"
       THEN /\ seqResult' = Some([kind |-> "ok", err |-> "none", frames |-> pending[1].frames,
                                  segments |-> finalSegments])
            /\ IF IsStale(currentGenId, generationId)
               THEN UNCHANGED <<segments, downloadData, audioElem, isGenerating, isPlaying,
                                currentTime>>
               ELSE /\ segments' = finalSegments
                    /\ downloadData' = Some([frames |-> pending[1].frames, src |-> rawSegments])
                    /\ audioElem' = Some([paused |-> FALSE, started |-> FALSE,
                                          src |-> rawSegments])
                    /\ currentTime' = 0
                    /\ isGenerating' = FALSE
                    /\ isPlaying' = TRUE
            /\ error' = error
       ELSE /\ seqResult' = Some([kind |-> "threw", err |-> pending[1].err, frames |-> 0,
                                  segments |-> <<>>])
            /\ error' = IF IsQuotaError(pending[1].err) THEN "quota" ELSE "generic"
            /\ isGenerating' = FALSE
            /\ UNCHANGED <<segments, downloadData, audioElem, isPlaying, currentTime>>
    /\ UNCHANGED <<selectedVoice, text, hostName, expertName, generationId, activeSegmentIndex,
                   activeSlideIndex, pvars, kvars, cvars, currentGenId, rawSegments>>

\* the playing element advances past time 0
AudioProgress ==
    /\ audioElem # None /\ ~audioElem[1].paused /\ ~audioElem[1].started
    /\ audioElem' = Some([audioElem[1] EXCEPT !.started = TRUE])
    /\ UNCHANGED <<selectedVoice, text, hostName, expertName, segments, downloadData, isGenerating, isPlaying,
                   error, generationId, pvars, svars, kvars, cvars, runvars, histvars>>

\* audio.onended
AudioEnded ==
    /\ audioElem # None /\ ~audioElem[1].paused /\ audioElem[1].started
    /\ audioElem' = Some([audioElem[1] EXCEPT !.paused = TRUE])
    /\ isPlaying' = FALSE
    /\ activeSegmentIndex' = -1
    /\ UNCHANGED <<selectedVoice, text, hostName, expertName, segments, downloadData, isGenerating, error,
                   generationId, currentTime, activeSlideIndex, pvars, kvars, cvars, runvars, histvars>>

Init == ParseIdle /\ CancelIdle /\ SyncIdle /\ CodecIdle /\ AppInit /\ RunInit

Next ==
    \/ EditText
    \/ PlayPause
    \/ PlayResume
    \/ PlayStored
    \/ StartRun
    \/ Respond
    \/ CloseCallDone
    \/ BackoffDone
    \/ PaceDone
    \/ CloseSeqDone
    \/ AudioProgress
    \/ AudioEnded

Spec == Init /\ [][Next]_vars

(***************************************************************************)
(* The App with its settings changing: names, voice and style, against a   *)
(* provider that answers with audio, the shortest or the longest, or with   *)
(* one error that is not retried                                           *)
(***************************************************************************)
RespondNoRetry ==
    /\ seqPc = "request"
    /\ unitIdx \in inFlight
    /\ LET r == [Run EXCEPT !.inFlight = @ \ {unitIdx}] IN
       \/ \E f \in {1, MaxFrames} :
            Assign([r EXCEPT !.seqPc = "closeCall", !.openCtx = @ \cup {"call"},
                             !.pending = Some(Ok(f))])
       \/ \E jitter \in DrawnJitters(r, "other") : Assign(CatchError(r, "other", jitter))
    /\ UNCHANGED <<appvars, pvars, svars, kvars, cvars, currentGenId, rawSegments, seqResult>>

SettingsNext ==
    \/ EditText
    \/ ChangeHostName
    \/ ChangeExpertName
    \/ ChangeVoice
    \/ ChangeStyle
    \/ PlayPause
    \/ PlayResume
    \/ PlayStored
    \/ StartRun
    \/ RespondNoRetry
    \/ CloseCallDone
    \/ PaceDone
    \/ CloseSeqDone
    \/ AudioProgress
    \/ AudioEnded

SettingsSpec == Init /\ [][SettingsNext]_vars


(***************************************************************************)
(* The segmenter on every loaded script extended by at most MaxLen tokens   *)
(***************************************************************************)
\* "Host: Hello. Welcome."
ScriptTwoSentences == <<LH, SPACE, W, T, SPACE, W, T>>

\* texts the typing starts from: the empty text, the loaded scripts and a line
\* of two sentences
ParseSeeds == Scripts \cup {ScriptTwoSentences}

ParseInit ==
    /\ pText \in ParseSeeds
    /\ pHost \in Names
    /\ pExpert \in Names
    /\ pSegments = parseScriptToSegments(pText, pHost, pExpert)
    /\ pMerged = MergeSegments(pSegments)
    /\ pRemerged = MergeSegments(pMerged)
    /\ pTyped = 0
    /\ CancelIdle
    /\ SyncIdle
    /\ CodecIdle
    /\ AppInit
    /\ RunInit

\* the text grows by one token and is parsed again
ParseType ==
    /\ pTyped < MaxLen
    /\ pTyped' = pTyped + 1
    /\ \E t \in Alphabet : pText' = Append(pText, t)
    /\ pSegments' = parseScriptToSegments(pText', pHost, pExpert)
    /\ pMerged' = MergeSegments(pSegments')
    /\ pRemerged' = MergeSegments(pMerged')
    /\ UNCHANGED <<pHost, pExpert, cvars, svars, kvars, appvars, runvars, histvars>>

ParseNext == ParseType

ParseSpec == ParseInit /\ [][ParseNext]_vars

\* "[SLIDE 2]\nHello.\n"  (a slide marker and a line without a label)
ScriptMarkerUnlabeled == <<M(2), NL, W, T, NL>>

\* texts without a speaker label that the typing starts from
LabelSeeds == {<<>>, ScriptUnlabeled, ScriptMarkerUnlabeled}

\* the segmenter on every text without a label extended by at most MaxLen tokens
LabelInit ==
    /\ pText \in LabelSeeds
    /\ pHost \in Names
    /\ pExpert \in Names
    /\ pSegments = parseScriptToSegments(pText, pHost, pExpert)
    /\ pMerged = MergeSegments(pSegments)
    /\ pRemerged = MergeSegments(pMerged)
    /\ pTyped = 0
    /\ CancelIdle
    /\ SyncIdle
    /\ CodecIdle
    /\ AppInit
    /\ RunInit

LabelSpec == LabelInit /\ [][ParseNext]_vars


(***************************************************************************)
(* Playback synchronizer: the updateSync callback of the sync effect, on    *)
(* the playback of a finished run                                          *)
(***************************************************************************)
\* the interval test with the end included
InSegment_Inclusive(seg, t) == t >= seg.startTime /\ t <= seg.endTime

\* seg => t >= seg.startTime && t < seg.endTime
InSegment(seg, t) == t >= seg.startTime /\ t < seg.endTime

\* segments.findIndex(...): 0-based index of the first match, -1 for none
FindIndex(segs, t) ==
    IF \E i \in 1..Len(segs) : InSegment(segs[i], t)
    THEN (CHOOSE i \in 1..Len(segs) :
             InSegment(segs[i], t) /\ \A j \in 1..(i - 1) : ~InSegment(segs[j], t)) - 1
    ELSE -1

\* body of updateSync: the active segment and slide index it leaves
updateSync(segs, t, active, slide) ==
    LET foundIndex == FindIndex(segs, t) IN
    IF foundIndex # -1
    THEN [active |-> foundIndex, slide |-> segs[foundIndex + 1].slideIndex]
    ELSE IF Len(segs) > 0 /\ t >= segs[Len(segs)].endTime
         THEN [active |-> Len(segs) - 1, slide |-> segs[Len(segs)].slideIndex]
         ELSE [active |-> active, slide |-> slide]

\* finalSegments of a failure-free run on the merged list, frames[i] the audio
\* length of unit i
RECURSIVE StampAll(_, _, _)
StampAll(merged, frames, offset) ==
    IF merged = <<>> THEN <<>>
    ELSE <<StampSegment(Head(merged), offset, Head(frames))>>
         \o StampAll(Tail(merged), Tail(frames), offset + Head(frames))

\* times the callback reads: the first ticks, and the ticks around the bounds
\* of the segments
SyncTimes(segs) ==
    (0..(3 * MaxFrames + 1))
    \cup UNION {{segs[i].startTime, segs[i].endTime - 1, segs[i].endTime, segs[i].endTime + 1} :
                    i \in 1..Len(segs)}

\* the App right after a run on a script succeeded and its playback started
SyncInit ==
    /\ ParseIdle /\ CancelIdle /\ SyncIdle /\ CodecIdle /\ RunInit
    /\ hostName = 2 /\ expertName = 3 /\ selectedVoice = 0
    /\ text \in {s \in Scripts : parseScriptToSegments(s, 2, 3) # <<>>}
    /\ LET raw == parseScriptToSegments(text, hostName, expertName)
           merged == MergeSegments(raw)
       IN \E frames \in [1..Len(merged) -> 1..MaxFrames] :
            /\ segments = StampAll(merged, frames, 0)
            /\ downloadData = Some([frames |-> SumSeq(frames), src |-> raw])
            /\ audioElem = Some([paused |-> FALSE, started |-> FALSE, src |-> raw])
    /\ isGenerating = FALSE
    /\ isPlaying = TRUE
    /\ error = "none"
    /\ generationId = 1

\* one animation frame: the element has played on to t and updateSync runs
SyncTick ==
    /\ isPlaying
    /\ audioElem # None /\ ~audioElem[1].paused
    /\ \E t \in SyncTimes(segments) :
        /\ t >= currentTime
        /\ currentTime' = t
        /\ audioElem' = Some([audioElem[1] EXCEPT !.started = @ \/ t > 0])
        /\ LET r == updateSync(segments, t, activeSegmentIndex, activeSlideIndex) IN
           /\ activeSegmentIndex' = r.active
           /\ activeSlideIndex' = r.slide
    /\ UNCHANGED <<selectedVoice, text, hostName, expertName, segments, downloadData, isGenerating,
                   isPlaying, error, generationId, pvars, kvars, cvars, runvars, histvars>>

SyncNext ==
    \/ SyncTick
    \/ EditText
    \/ AudioEnded

SyncSpec == SyncInit /\ [][SyncNext]_vars


(***************************************************************************)
(* PCM codec: decodeAudioData and the float to 16-bit loop of              *)
(* generateSequencedSpeech.  A float sample is the integer m that stands    *)
(* for m / FloatDen, so that v / 32768, s * 0x8000 and s * 0x7FFF are exact *)
(***************************************************************************)
MaxSample == 20          \* samples explored around 0 and next to both ends of the range

Int16Min == -32768
Int16Max == 32767
FloatDen == 32768 * 32767

\* the 16-bit samples explored
Samples ==
    (Int16Min..(Int16Min + MaxSample)) \cup ((-MaxSample)..MaxSample)
    \cup ((Int16Max - MaxSample)..Int16Max)

\* truncation towards zero of a / b, b > 0 (the conversion of a typed array store)
TruncDiv(a, b) == IF a >= 0 THEN a \div b ELSE -((-a) \div b)

\* a store that keeps 8 bits
ToInt16_Narrow(x) == ((x + 128) % 256) - 128

\* store into an Int16Array element: modulo 2^16, two's complement
ToInt16(x) == ((x + 32768) % 65536) - 32768

\* channelData[i] = dataInt16[i] / 32768.0
DecodeSample(v) == v * (FloatDen \div 32768)

\* Math.max(-1, Math.min(1, channelData[i]))
ClampSample(m) == IF m < -FloatDen THEN -FloatDen ELSE IF m > FloatDen THEN FloatDen ELSE m

\* both signs scaled by 0x8000
EncodeSample_Symmetric(m) ==
    LET s == ClampSample(m) IN ToInt16(TruncDiv(s, FloatDen \div 32768))

\* rawData[i] = s < 0 ? s * 0x8000 : s * 0x7FFF
EncodeSample(m) ==
    LET s == ClampSample(m) IN
    IF s < 0 THEN ToInt16(TruncDiv(s, FloatDen \div 32768))
    ELSE ToInt16(TruncDiv(s, FloatDen \div 32767))

\* a sample of the provider's audio, decoded
CodecInit ==
    /\ ParseIdle /\ CancelIdle /\ SyncIdle /\ AppInit /\ RunInit
    /\ cSample \in Samples
    /\ cFloat = DecodeSample(cSample)
    /\ cPcm = None
    /\ cOut = None
    /\ wSamples = <<>>
    /\ wRate = SAMPLE_RATE
    /\ wFile = None

\* the float to 16-bit loop, one sample
CodecEncode ==
    /\ cPcm = None
    /\ cPcm' = Some(EncodeSample(cFloat))
    /\ UNCHANGED <<cSample, cFloat, cOut, wSamples, wRate, wFile, pvars, svars, cvars,
                   appvars, runvars, histvars>>

\* the encoded sample decoded again
CodecDecode ==
    /\ cPcm # None /\ cOut = None
    /\ cOut' = Some(DecodeSample(cPcm[1]))
    /\ UNCHANGED <<cSample, cFloat, cPcm, wSamples, wRate, wFile, pvars, svars, cvars,
                   appvars, runvars, histvars>>

CodecNext ==
    \/ CodecEncode
    \/ CodecDecode

CodecSpec == CodecInit /\ [][CodecNext]_vars


(***************************************************************************)
(* createWavBlob: the file as the sequence of its bytes                    *)
(***************************************************************************)
MaxBytes == 3            \* longest sample byte array explored

ByteValues == {0, 1, 255}
SampleRates == {SAMPLE_RATE, 44100}

\* charCodeAt of the four chunk identifiers
RIFF == <<82, 73, 70, 70>>
WAVE == <<87, 65, 86, 69>>
FMT == <<102, 109, 116, 32>>
DATA == <<100, 97, 116, 97>>

\* the bytes of `buf` from offset `off` on replaced by `bytes`
WriteBytes(buf, off, bytes) ==
    [i \in 1..Len(buf) |->
        IF i > off /\ i <= off + Len(bytes) THEN bytes[i - off] ELSE buf[i]]

\* writeString(view, offset, string)
writeString(buf, off, codes) == WriteBytes(buf, off, codes)

\* the 32-bit field written with the high byte first
setUint32_BigEndian(buf, off, v) ==
    WriteBytes(buf, off, <<(v \div 16777216) % 256, (v \div 65536) % 256,
                           (v \div 256) % 256, v % 256>>)

\* view.setUint32(offset, value, true); the values written are below 2^31, so
\* the store's modulo 2^32 is the modulo 256 of the highest byte
setUint32(buf, off, v) ==
    WriteBytes(buf, off, <<v % 256, (v \div 256) % 256, (v \div 65536) % 256,
                           (v \div 16777216) % 256>>)

\* view.setUint16(offset, value, true)
setUint16(buf, off, value) ==
    LET v == value % 65536 IN
    WriteBytes(buf, off, <<v % 256, (v \div 256) % 256>>)

\* createWavBlob(samples, sampleRate): the bytes of the blob
createWavBlob(samples, sampleRate) ==
    LET b0 == [i \in 1..(44 + Len(samples)) |-> 0]
        b1 == writeString(b0, 0, RIFF)
        b2 == setUint32(b1, 4, 36 + Len(samples))
        b3 == writeString(b2, 8, WAVE)
        b4 == writeString(b3, 12, FMT)
        b5 == setUint32(b4, 16, 16)
        b6 == setUint16(b5, 20, 1)
        b7 == setUint16(b6, 22, 1)
        b8 == setUint32(b7, 24, sampleRate)
        b9 == setUint32(b8, 28, sampleRate * 2)
        b10 == setUint16(b9, 32, 2)
        b11 == setUint16(b10, 34, 16)
        b12 == writeString(b11, 36, DATA)
        b13 == setUint32(b12, 40, Len(samples))
    IN WriteBytes(b13, 44, samples)

\* all byte arrays of at most n bytes
RECURSIVE ByteArrays(_)
ByteArrays(n) ==
    IF n = 0 THEN {<<>>}
    ELSE LET shorter == ByteArrays(n - 1) IN
         shorter \cup {Append(q, b) : q \in {x \in shorter : Len(x) = n - 1}, b \in ByteValues}

WavInit ==
    /\ ParseIdle /\ CancelIdle /\ SyncIdle /\ AppInit /\ RunInit
    /\ cSample = 0 /\ cFloat = 0 /\ cPcm = None /\ cOut = None
    /\ wSamples \in ByteArrays(MaxBytes)
    /\ wRate \in SampleRates
    /\ wFile = None

WavCreate ==
    /\ wFile = None
    /\ wFile' = Some(createWavBlob(wSamples, wRate))
    /\ UNCHANGED <<cSample, cFloat, cPcm, cOut, wSamples, wRate, pvars, svars, cvars,
                   appvars, runvars, histvars>>

WavNext == WavCreate

WavSpec == WavInit /\ [][WavNext]_vars


(***************************************************************************)
(* The App version whose play handler cancels: handlePlay awaits one       *)
(* generateSpeech call per run, and pressing play while generating         *)
(* increments the token                                                    *)
(***************************************************************************)
MaxToken == 3      \* largest value of the generation token in the cancellable handler

\* setText(...); setDownloadData(null)
CEdit ==
    /\ \E s \in Scripts \ {text} : text' = s
    /\ downloadData' = None
    /\ UNCHANGED <<selectedVoice, hostName, expertName, segments, isGenerating, isPlaying, error,
                   generationId, audioElem, pvars, svars, kvars, cvars, runvars, histvars>>

\* voice picker, and the effect on [selectedVoice, secondVoice]
CVoice ==
    /\ \E v \in Voices \ {selectedVoice} : selectedVoice' = v
    /\ downloadData' = None
    /\ UNCHANGED <<text, hostName, expertName, segments, isGenerating, isPlaying, error,
                   generationId, audioElem, pvars, svars, kvars, cvars, runvars, histvars>>

\* handlePlay while playing: handleStop
CStop ==
    /\ isPlaying
    /\ audioElem' = None
    /\ isPlaying' = FALSE
    /\ UNCHANGED <<selectedVoice, text, hostName, expertName, segments, downloadData, isGenerating, error,
                   generationId, pvars, svars, kvars, cvars, runvars, histvars>>

\* handlePlay while generating: cancel
CCancel ==
    /\ ~isPlaying
    /\ isGenerating
    /\ generationId < MaxToken
    /\ isGenerating' = FALSE
    /\ generationId' = generationId + 1
    /\ UNCHANGED <<selectedVoice, text, hostName, expertName, segments, downloadData, isPlaying, error,
                   audioElem, pvars, svars, kvars, cvars, runvars, histvars>>

\* handlePlay with stored download data: play it again
CPlayStored ==
    /\ ~isPlaying
    /\ ~isGenerating
    /\ downloadData # None /\ Trim(text) # <<>>
    /\ audioElem' = Some([paused |-> FALSE, started |-> FALSE, src |-> downloadData[1].src])
    /\ isPlaying' = TRUE
    /\ UNCHANGED <<selectedVoice, text, hostName, expertName, segments, downloadData, isGenerating, error,
                   generationId, pvars, svars, kvars, cvars, runvars, histvars>>

\* handlePlay starting a run, up to  await generateSpeech(...)
CStart ==
    /\ ~isPlaying
    /\ ~isGenerating
    /\ ~(downloadData # None /\ Trim(text) # <<>>)
    /\ Trim(text) # <<>>
    /\ generationId < MaxToken
    /\ isGenerating' = TRUE
    /\ error' = "none"
    /\ downloadData' = None
    /\ generationId' = generationId + 1
    /\ speechRuns' = speechRuns \cup {[genId |-> generationId + 1, src |-> text]}
    /\ UNCHANGED <<selectedVoice, text, hostName, expertName, segments, isPlaying, audioElem, abandoned,
                   pvars, svars, kvars, runvars, histvars>>

\* generateSpeech of run r returned audio: the rest of the try block
CResolve ==
    /\ \E r \in speechRuns :
        /\ speechRuns' = speechRuns \ {r}
        /\ IF IsStale(r.genId, generationId)
           THEN /\ abandoned' = abandoned \cup {r.genId}
                /\ UNCHANGED <<downloadData, isGenerating, isPlaying, audioElem>>
           ELSE /\ \E f \in 1..MaxFrames : downloadData' = Some([frames |-> f, src |-> r.src])
                /\ isGenerating' = FALSE
                /\ isPlaying' = TRUE
                /\ audioElem' = Some([paused |-> FALSE, started |-> FALSE, src |-> r.src])
                /\ abandoned' = abandoned
    /\ UNCHANGED <<selectedVoice, text, hostName, expertName, segments, error, generationId,
                   pvars, svars, kvars, runvars, histvars>>

\* generateSpeech of run r threw: the catch block
CReject ==
    /\ \E r \in speechRuns :
        /\ speechRuns' = speechRuns \ {r}
        /\ IF IsStale(r.genId, generationId)
           THEN /\ abandoned' = abandoned \cup {r.genId}
                /\ isGenerating' = FALSE
                /\ UNCHANGED <<error, isPlaying>>
           ELSE /\ error' = "generic"
                /\ isGenerating' = FALSE
                /\ isPlaying' = FALSE
                /\ abandoned' = abandoned
    /\ UNCHANGED <<selectedVoice, text, hostName, expertName, segments, downloadData, generationId,
                   audioElem, pvars, svars, kvars, runvars, histvars>>

\* source.onended
CEnded ==
    /\ isPlaying
    /\ audioElem # None
    /\ audioElem' = None
    /\ isPlaying' = FALSE
    /\ UNCHANGED <<selectedVoice, text, hostName, expertName, segments, downloadData, isGenerating, error,
                   generationId, pvars, svars, kvars, cvars, runvars, histvars>>

CancelNext ==
    \/ CEdit
    \/ CVoice
    \/ CStop
    \/ CCancel
    \/ CPlayStored
    \/ CStart
    \/ CResolve
    \/ CReject
    \/ CEnded

CancelSpec == Init /\ [][CancelNext]_vars

(***************************************************************************)
(* generateSequencedSpeech called on its own, with any segment list of at  *)
(* most MaxRaw segments, against a provider that answers with audio or     *)
(* with one error that is not retried                                      *)
(***************************************************************************)
MaxRaw == 3

\* segments a caller may pass: either speaker, two slides, a sentence or an
\* empty text (empty texts merge into a blank one)
RawSegs ==
    {Segment(sl, spk, txt, 0, EstimateDuration(txt)) :
        sl \in 0..1, spk \in {"Host", "Expert"}, txt \in {<<>>, <<W, T>>}}

RECURSIVE SeqsUpTo(_, _)
SeqsUpTo(S, n) ==
    IF n = 0 THEN {<<>>}
    ELSE LET shorter == SeqsUpTo(S, n - 1) IN
         shorter \cup {Append(q, x) : q \in {p \in shorter : Len(p) = n - 1}, x \in S}

RawInputs == SeqsUpTo(RawSegs, MaxRaw)

\* the caller builds the segment list it is about to pass
SeqInput ==
    /\ seqPc = "idle"
    /\ seqResult = None
    /\ \E raw \in RawInputs : rawSegments' = raw
    /\ seqPc' = "call"
    /\ UNCHANGED <<appvars, pvars, svars, kvars, cvars, currentGenId, mergedSegments, unitIdx,
                   audioBuffers, finalSegments, currentOffset, attempt, pending, inFlight,
                   openCtx, histvars>>

\* generateSequencedSpeech(rawSegments, ...) up to its first await
SeqCall ==
    /\ seqPc = "call"
    /\ rawSegments' = MergeObjects(rawSegments).raw
    /\ Assign(StartSequence(rawSegments))
    /\ UNCHANGED <<appvars, pvars, svars, kvars, cvars, currentGenId, seqResult>>

\* await outputAudioContext.close() in the finally of generateSequencedSpeech,
\* then the return or the throw to the caller
SeqReturn ==
    /\ seqPc = "closeSeq"
    /\ Assign([Run EXCEPT !.seqPc = "idle", !.openCtx = CloseContext(@, "seq"), !.pending = None,
                          !.lastCall = None])
    /\ seqResult' = IF pending[1].kind = "ok"
                    THEN Some([kind |-> "ok", err |-> "none", frames |-> pending[1].frames,
                               segments |-> finalSegments])
                    ELSE Some([kind |-> "threw", err |-> pending[1].err, frames |-> 0,
                               segments |-> <<>>])
    /\ UNCHANGED <<appvars, pvars, svars, kvars, cvars, currentGenId, rawSegments>>

SeqNext ==
    \/ SeqInput
    \/ SeqCall
    \/ RespondNoRetry
    \/ CloseCallDone
    \/ PaceDone
    \/ SeqReturn

SeqSpec == Init /\ [][SeqNext]_vars

\* generateSequencedSpeech called on the segments of a loaded script, against
\* the provider with every outcome, retried errors included, and with every
\* await resolving in the end: the provider answers each request, each
\* setTimeout fires and each context close completes
LiveInput ==
    /\ seqPc = "idle"
    /\ seqResult = None
    /\ \E s \in Scripts : rawSegments' = parseScriptToSegments(s, hostName, expertName)
    /\ seqPc' = "call"
    /\ UNCHANGED <<appvars, pvars, svars, kvars, cvars, currentGenId, mergedSegments, unitIdx,
                   audioBuffers, finalSegments, currentOffset, attempt, pending, inFlight,
                   openCtx, histvars>>

LiveNext ==
    \/ LiveInput
    \/ SeqCall
    \/ Respond
    \/ CloseCallDone
    \/ BackoffDone
    \/ PaceDone
    \/ SeqReturn

LiveSpec ==
    /\ Init /\ [][LiveNext]_vars
    /\ WF_vars(Respond)
    /\ WF_vars(CloseCallDone)
    /\ WF_vars(BackoffDone)
    /\ WF_vars(PaceDone)
    /\ WF_vars(SeqReturn)


(***************************************************************************)
(* Properties                                                              *)
(***************************************************************************)
Contiguous(segs) ==
    /\ (segs # <<>> => segs[1].startTime = 0)
    /\ \A i \in 1..(Len(segs) - 1) : segs[i].endTime = segs[i + 1].startTime

NonDecreasing(q) == \A i \in 1..(Len(q) - 1) : q[i] <= q[i + 1]

SlideIndexes(segs) == [i \in 1..Len(segs) |-> segs[i].slideIndex]

\* page numbers of the slide markers of a text, in text order
RECURSIVE MarkerPages(_)
MarkerPages(s) ==
    IF s = <<>> THEN <<>>
    ELSE IF Kind(Head(s)) = "marker" THEN <<Val(Head(s))>> \o MarkerPages(Tail(s))
         ELSE MarkerPages(Tail(s))

\* C1: the segments parseScriptToSegments returns are contiguous in time: the
\* first starts at 0 and every segment ends where the next one starts
C1_Contiguity == Contiguous(pSegments)

\* a re-parse after typing with at least two segments, one of them longer than
\* the floor
C1_Witness ==
    /\ pTyped > 0
    /\ Len(pSegments) >= 2
    /\ \E i \in 1..Len(pSegments) :
          pSegments[i].endTime - pSegments[i].startTime # (3 * SAMPLE_RATE) \div 2

\* C2 as stated: slideIndex never decreases along the segment list, whatever
\* the page numbers of the markers
C2_Original == NonDecreasing(SlideIndexes(pSegments))

\* C2 amended: slideIndex never decreases along the segment list when the page
\* numbers of the markers do not decrease in text order, and it is never negative
C2_MonotoneForOrderedMarkers ==
    /\ \A i \in 1..Len(pSegments) : pSegments[i].slideIndex >= 0
    /\ NonDecreasing(MarkerPages(pText)) => NonDecreasing(SlideIndexes(pSegments))

\* ordered markers with a segment on either side of one and a real index step
C2_Witness ==
    /\ pTyped > 0
    /\ NonDecreasing(MarkerPages(pText))
    /\ Len(MarkerPages(pText)) >= 2
    /\ Len(pSegments) >= 2
    /\ pSegments[1].slideIndex < pSegments[Len(pSegments)].slideIndex


CallEnded(result) == lastCall # None /\ lastCall[1].result = result

\* C3: a client call that meets only transient failures, fewer than 10 of
\* them, and then audio returns that audio after one request more than the
\* failures: a returned call issued transient + 1 requests and slept once per
\* failure, and no call gives up on a transient error before 10 of them
C3_RetryThenSuccess ==
    /\ CallEnded("ok") =>
          /\ lastCall[1].requests = lastCall[1].transient + 1
          /\ lastCall[1].sleeps = lastCall[1].transient
          /\ lastCall[1].nonTransient = 0
    /\ CallEnded("error") /\ Transient(lastCall[1].err) => lastCall[1].transient >= 10

\* a call that succeeded after 9 transient failures
C3_Witness == CallEnded("ok") /\ lastCall[1].transient = 9 /\ lastCall[1].requests = 10

\* C4 as stated: a call answered with transient errors only fails after
\* exactly 10 requests
C4_Original == CallEnded("error") /\ Transient(lastCall[1].err) => lastCall[1].requests = 10

\* C4 amended: a call answered with transient errors only fails after exactly
\* maxRetries + 1 = 11 requests and maxRetries = 10 backoff sleeps
C4_ExhaustedAfterElevenRequests ==
    CallEnded("error") /\ Transient(lastCall[1].err) =>
        /\ lastCall[1].requests = maxRetries + 1
        /\ lastCall[1].sleeps = maxRetries
        /\ lastCall[1].transient = maxRetries + 1

\* a call that gave up on a transient error
C4_Witness == CallEnded("error") /\ lastCall[1].err = "rate" /\ seqPc = "closeSeq"

\* C5 as stated: a call that ends in a non-transient outcome issued exactly one
\* request and never slept
C5_Original ==
    CallEnded("error") /\ ~Transient(lastCall[1].err) =>
        lastCall[1].requests = 1 /\ lastCall[1].sleeps = 0

\* C5 amended: the first non-transient outcome ends the call at once, with no
\* sleep and no request after it: the call saw exactly one non-transient
\* outcome and issued one request, and slept once, per transient failure before it
C5_NonTransientFailsAtOnce ==
    CallEnded("error") /\ ~Transient(lastCall[1].err) =>
        /\ lastCall[1].nonTransient = 1
        /\ lastCall[1].requests = lastCall[1].transient + 1
        /\ lastCall[1].sleeps = lastCall[1].transient

\* a call ended by a text answer on its very first request
C5_Witness ==
    CallEnded("error") /\ lastCall[1].err = "text" /\ lastCall[1].requests = 1

\* C6: at most one request of the run is outstanding, requests are issued in
\* unit order, and a unit is requested only after every unit before it resolved
C6_Sequential ==
    /\ Cardinality(inFlight) <= 1
    /\ \A i \in 1..(Len(issued) - 1) : issued[i] < issued[i + 1]
    /\ \A u \in inFlight : \A v \in 1..(u - 1) :
          Trim(mergedSegments[v].text) # <<>> => v \in resolved

\* the third unit's request outstanding after the first two units resolved
C6_Witness == inFlight = {3} /\ resolved = {1, 2} /\ issued = <<1, 2, 3>>

\* C7: when a unit's client call threw, the run ends by throwing: nothing is
\* returned and the step leaves segments, download data, the audio element and
\* the playing flag alone, shows an error and clears the generating flag
C7_FailureIsAtomic ==
    [][(seqPc = "closeSeq" /\ failedUnits # {} /\ seqPc' # "closeSeq") =>
          /\ seqResult' # None
          /\ seqResult'[1].kind = "threw"
          /\ seqResult'[1].segments = <<>>
          /\ segments' = segments
          /\ downloadData' = downloadData
          /\ audioElem' = audioElem
          /\ isPlaying' = isPlaying
          /\ error' # "none"
          /\ ~isGenerating']_vars

\* a run that threw on its third unit after two units were synthesized
C7_Witness ==
    /\ seqPc = "idle"
    /\ seqResult # None /\ seqResult[1].kind = "threw"
    /\ failedUnits = {3}
    /\ Len(audioBuffers) = 2
    /\ downloadData = None

RunOk == seqResult # None /\ seqResult[1].kind = "ok"

\* number of maximal runs of equal speaker and slideIndex
RunCount(segs) ==
    IF segs = <<>> THEN 0
    ELSE 1 + Cardinality({i \in 1..(Len(segs) - 1) :
                 segs[i].speaker # segs[i + 1].speaker
                 \/ segs[i].slideIndex # segs[i + 1].slideIndex})

\* the texts of a segment list joined by single blanks
RECURSIVE JoinTexts(_)
JoinTexts(segs) ==
    IF segs = <<>> THEN <<>>
    ELSE IF Len(segs) = 1 THEN segs[1].text
    ELSE (segs[1].text \o <<SPACE>>) \o JoinTexts(Tail(segs))

C9_ExactTimes ==
    RunOk =>
        LET out == seqResult[1].segments IN
        /\ Len(out) = Len(audioBuffers) /\ out # <<>>
        /\ out[1].startTime = 0
        /\ \A i \in 1..Len(out) : out[i].endTime = out[i].startTime + audioBuffers[i]
        /\ \A i \in 1..(Len(out) - 1) : out[i].endTime = out[i + 1].startTime
        /\ out[Len(out)].endTime = SumSeq(audioBuffers)
        /\ seqResult[1].frames = SumSeq(audioBuffers)

\* a successful run of three units of different audio lengths
C9_Witness ==
    /\ RunOk
    /\ Len(audioBuffers) = 3
    /\ audioBuffers[1] # audioBuffers[2]
    /\ segments = seqResult[1].segments


\* in the App that drives generateSequencedSpeech a run is awaited only while
\* the generating flag is set, and its token is the current one
RunHoldsCurrentToken == seqPc # "idle" => isGenerating /\ currentGenId = generationId

\* C10: a step that starts a run increments the token and hands the run the
\* new value, and a run that resumes with a token other than the current one
\* abandons: the step issues no request and leaves download data, segments,
\* the audio element, the playing flag and the error alone
C10_StaleRunAbandons ==
    [][/\ \A r \in speechRuns' \ speechRuns :
             generationId' = generationId + 1 /\ r.genId = generationId'
       /\ \A r \in speechRuns \ speechRuns' :
             r.genId # generationId =>
                /\ speechRuns' \subseteq speechRuns
                /\ downloadData' = downloadData
                /\ segments' = segments
                /\ audioElem' = audioElem
                /\ isPlaying' = isPlaying
                /\ error' = error]_vars

\* a cancelled run returned on the staleness test while a newer run is awaited
C10_Witness ==
    /\ 1 \in abandoned
    /\ \E r \in speechRuns : r.genId = generationId
    /\ downloadData = None


\* the times of a segment list are the length estimates of its texts
EstimatedTimes(segs) ==
    \A i \in 1..Len(segs) : segs[i].endTime - segs[i].startTime = EstimateDuration(segs[i].text)

SettingChanged ==
    \/ text' # text
    \/ hostName' # hostName
    \/ expertName' # expertName
    \/ selectedVoice' # selectedVoice

\* C11: a step that changes the script text, a name binding or the voice
\* leaves no download data stored and leaves segment times that are estimates
C11_InvalidatedOnChange ==
    [][SettingChanged => downloadData' = None /\ EstimatedTimes(segments')]_vars


\* C12: when a generateSingleSpeakerAudio call has returned or thrown, the
\* context it opened is closed, and when generateSequencedSpeech has returned or
\* thrown no context is open at all
C12_ContextsClosedOnExit ==
    /\ lastCall # None => "call" \notin openCtx
    /\ seqPc = "idle" => openCtx = {}

\* a run that threw because the audio of its second unit could not be decoded:
\* the run's context and the context of each of its two calls were opened
C12_Witness ==
    /\ seqPc = "idle"
    /\ seqResult # None /\ seqResult[1].kind = "threw" /\ seqResult[1].err = "decode"
    /\ Len(audioBuffers) = 1
    /\ failedUnits = {2}
    /\ openCtx = {}

\* a retry is in progress: the backoff sleep, or a request after the first
RetryInProgress == seqPc = "backoff" \/ (seqPc = "request" /\ attempt > 0)

\* C13 as stated: no context is open while a retry is in progress
C13_Original == RetryInProgress => openCtx = {}

\* C13 amended: while a request is outstanding or a backoff or pacing sleep is in
\* progress no context opened by generateSingleSpeakerAudio is open; the context
\* generateSequencedSpeech opened before its loop is open all the while
C13_NoCallContextAcrossRetries ==
    seqPc \in {"request", "backoff", "pace"} => openCtx = {"seq"}

\* the backoff sleep of the second unit's call, after the first unit's call
\* opened and closed its context
C13_Witness ==
    /\ seqPc = "backoff"
    /\ unitIdx = 2 /\ attempt >= 2
    /\ Len(audioBuffers) = 1
    /\ openCtx = {"seq"}


\* the segments of segs whose interval [startTime, endTime) holds t
Holding(segs, t) == {i \in 1..Len(segs) : segs[i].startTime <= t /\ t < segs[i].endTime}

\* C14 as stated: after a lookup at time t the active index is the index of the
\* segment whose interval holds t, the last index when t is at or past the
\* last end, and none when t < 0 or there is no segment
C14_Original ==
    [][SyncTick =>
          /\ \A i \in Holding(segments, currentTime') : activeSegmentIndex' = i - 1
          /\ (segments # <<>> /\ currentTime' >= segments[Len(segments)].endTime) =>
                 activeSegmentIndex' = Len(segments) - 1
          /\ (currentTime' < 0 \/ segments = <<>>) => activeSegmentIndex' = -1]_vars

\* C14 amended: as stated for a time inside a segment or at or past the last
\* end; when there is no segment the lookup leaves the active index and the
\* slide index as they were, and the time it reads is never negative
C14_LookupResolves ==
    [][SyncTick =>
          /\ currentTime' >= 0
          /\ \A i \in Holding(segments, currentTime') :
                 /\ activeSegmentIndex' = i - 1
                 /\ activeSlideIndex' = segments[i].slideIndex
          /\ (segments # <<>> /\ currentTime' >= segments[Len(segments)].endTime) =>
                 /\ activeSegmentIndex' = Len(segments) - 1
                 /\ activeSlideIndex' = segments[Len(segments)].slideIndex
          /\ segments = <<>> =>
                 /\ activeSegmentIndex' = activeSegmentIndex
                 /\ activeSlideIndex' = activeSlideIndex]_vars

\* playback at the very end of the second of three segments, the second active
C14_Witness ==
    /\ Len(segments) = 3
    /\ currentTime = segments[2].endTime - 1
    /\ currentTime > segments[2].startTime
    /\ activeSegmentIndex = 1
    /\ isPlaying


\* C15: the merged list is no longer than the list it is made from, and its
\* texts joined in order are the sentences of that list joined in order; each
\* merged unit keeps the speaker and slide of the sentences it is made of
C15_MergeKeepsOrder ==
    /\ Len(pMerged) <= Len(pSegments)
    /\ JoinTexts(pMerged) = JoinTexts(pSegments)
    /\ RunCount(pMerged) = RunCount(pSegments)

\* a merge that joined sentences and left at least two units
C15_Witness ==
    /\ pTyped > 0
    /\ Len(pMerged) >= 2
    /\ Len(pMerged) < Len(pSegments)

\* C16: merging a merged list gives the same list: same length, and the same
\* speaker, slideIndex and text at every position
C16_MergeIdempotent ==
    /\ Len(pRemerged) = Len(pMerged)
    /\ \A i \in 1..Len(pMerged) :
          /\ pRemerged[i].speaker = pMerged[i].speaker
          /\ pRemerged[i].slideIndex = pMerged[i].slideIndex
          /\ pRemerged[i].text = pMerged[i].text

\* a merged list one of whose units is made of three sentences
C16_Witness ==
    /\ pTyped > 0
    /\ Len(pSegments) >= Len(pMerged) + 2
    /\ \E i \in 1..(Len(pSegments) - 2) :
          /\ pSegments[i].speaker = pSegments[i + 2].speaker
          /\ pSegments[i].slideIndex = pSegments[i + 2].slideIndex
          /\ pSegments[i].speaker = pSegments[i + 1].speaker
          /\ pSegments[i].slideIndex = pSegments[i + 1].slideIndex
    /\ pRemerged = pMerged


SpeakerSlides(segs) == [i \in 1..Len(segs) |-> <<segs[i].slideIndex, segs[i].speaker>>]

ScenarioShape == <<<<0, "Host">>, <<0, "Host">>, <<0, "Expert">>, <<1, "Host">>>>

\* C17: a run started on the scenario script is handed 4 segments with (slide,
\* speaker) = (0,Host), (0,Host), (0,Expert), (1,Host) and merges them into 3
\* units, and when it succeeds against a provider that never failed it has
\* issued exactly 3 requests, one per unit in order
C17_ScenarioThreeRequests ==
    [][/\ (text = ScriptScenario /\ seqPc = "idle" /\ seqPc' # "idle") =>
             /\ SpeakerSlides(rawSegments') = ScenarioShape
             /\ Len(mergedSegments') = 3
             /\ SpeakerSlides(mergedSegments') = <<<<0, "Host">>, <<0, "Expert">>, <<1, "Host">>>>
       /\ (SpeakerSlides(rawSegments) = ScenarioShape /\ seqPc = "closeSeq" /\ seqPc' = "idle"
             /\ seqResult' # None /\ seqResult'[1].kind = "ok") =>
             /\ issued' = <<1, 2, 3>>
             /\ Len(audioBuffers') = 3]_vars

\* a run on the scenario script that succeeded
C17_Witness ==
    /\ RunOk
    /\ seqPc = "idle"
    /\ SpeakerSlides(rawSegments) = ScenarioShape
    /\ Len(seqResult[1].segments) = 3
    /\ issued = <<1, 2, 3>>


\* C18: when a run ends by throwing, the caller shows one error, the quota
\* message exactly when the failure is a rate-limit or quota error of the
\* provider and the generic message otherwise, and clears the generating flag
C18_QuotaIffRateLimit ==
    [][(seqPc = "closeSeq" /\ pending # None /\ pending[1].kind = "error" /\ seqPc' = "idle") =>
          /\ error' \in {"quota", "generic"}
          /\ error' = "quota" <=> isRateLimit(pending[1].err)
          /\ ~isGenerating']_vars


Abs(x) == IF x < 0 THEN -x ELSE x

RECURSIVE ReadLE(_, _, _)
ReadLE(f, off, n) == IF n = 0 THEN 0 ELSE f[off + 1] + 256 * ReadLE(f, off + 1, n - 1)

\* C20: the file createWavBlob builds of n sample bytes at rate r has 44 + n
\* bytes: the identifiers RIFF, WAVE, "fmt " and data at offsets 0, 8, 12 and
\* 36, the little-endian fields RIFF size 36 + n, fmt size 16, format 1,
\* channels 1, sample rate r, byte rate 2r, block align 2, bits 16, data size
\* n, and then the n sample bytes unchanged
C20_WavLayout ==
    wFile # None =>
        LET f == wFile[1]
            n == Len(wSamples)
        IN /\ Len(f) = 44 + n
           /\ SubSeq(f, 1, 4) = RIFF
           /\ ReadLE(f, 4, 4) = 36 + n
           /\ SubSeq(f, 9, 12) = WAVE
           /\ SubSeq(f, 13, 16) = FMT
           /\ ReadLE(f, 16, 4) = 16
           /\ ReadLE(f, 20, 2) = 1
           /\ ReadLE(f, 22, 2) = 1
           /\ ReadLE(f, 24, 4) = wRate
           /\ ReadLE(f, 28, 4) = 2 * wRate
           /\ ReadLE(f, 32, 2) = 2
           /\ ReadLE(f, 34, 2) = 16
           /\ SubSeq(f, 37, 40) = DATA
           /\ ReadLE(f, 40, 4) = n
           /\ SubSeq(f, 45, 44 + n) = wSamples

\* the file of three sample bytes at 24 kHz
C20_Witness ==
    /\ wFile # None
    /\ Len(wSamples) = 3 /\ wSamples[1] = 255
    /\ wRate = SAMPLE_RATE
    /\ Len(wFile[1]) = 47


(***************************************************************************)
(* Pacing between the client calls of one run                              *)
(***************************************************************************)
\* a step that issues the first request of a generateSingleSpeakerAudio call
FreshCallIssued == seqPc' = "request" /\ seqPc \notin {"request", "backoff"}

\* C21: the first client call of a run is issued without a pacing sleep (straight
\* from the start of the run); every later call is issued by the end of one
\* pacing sleep, which began when the call before it returned its audio; a
\* pacing sleep begins nowhere else
C21_PacingBeforeAllButFirst ==
    [][ /\ FreshCallIssued =>
              IF resolved' = {} THEN seqPc = "idle"
              ELSE seqPc = "pace" /\ unitIdx' = unitIdx
        /\ (seqPc = "closeCall" /\ seqPc' # "closeCall" /\ pending[1].kind = "ok")
              => seqPc' \in {"pace", "closeSeq"}
        /\ (seqPc' = "pace" /\ seqPc # "pace")
              => seqPc = "closeCall" /\ pending[1].kind = "ok" ]_vars

\* C21 witness: the second call of a run has been issued, after its pacing sleep
C21_Witness ==
    /\ seqPc = "request"
    /\ call.requests = 1
    /\ resolved # {}
    /\ Len(issued) = 2


(***************************************************************************)
(* Units with empty text                                                   *)
(***************************************************************************)
\* positions of the merged units whose text is not empty after trimming
SpokenUnits(merged) == {j \in 1..Len(merged) : Trim(merged[j].text) # <<>>}

\* C22: the unit a request or a pacing sleep is for has text that is not empty
\* after trimming, every output segment has such text, and a run that ends
\* without any failed request has issued one request for each merged unit with
\* non-empty text, in order, and none for the others
C22_EmptyUnitsSkipped ==
    /\ seqPc \in {"request", "pace", "closeCall"} => unitIdx \in SpokenUnits(mergedSegments)
    /\ \A i \in 1..Len(issued) : issued[i] \in SpokenUnits(mergedSegments)
    /\ \A i \in 1..Len(finalSegments) : Trim(finalSegments[i].text) # <<>>
    /\ (seqPc = "idle" /\ seqResult # None /\ failedUnits = {}) =>
          /\ Len(issued) = Cardinality(SpokenUnits(mergedSegments))
          /\ \A i \in 1..(Len(issued) - 1) : issued[i] < issued[i + 1]
          /\ Len(finalSegments) = Len(issued)

\* C22 witness: a run has ended without a failed request, after it skipped an
\* empty unit that lies between two spoken ones
C22_Witness ==
    /\ seqPc = "idle" /\ seqResult # None /\ seqResult[1].kind = "ok"
    /\ \E j \in 1..Len(mergedSegments) :
          /\ j \notin SpokenUnits(mergedSegments)
          /\ \E a, b \in SpokenUnits(mergedSegments) : a < j /\ j < b


(***************************************************************************)
(* Text before the first speaker label                                     *)
(***************************************************************************)
\* position of the first speaker label that opens a line, scanning s from
\* token i on, 0 when there is none; atStart: only blanks lie between token i and
\* the start of its line (the start of the text, a newline or a slide marker)
RECURSIVE FirstLabelFrom(_, _, _, _, _)
FirstLabelFrom(s, i, atStart, h, e) ==
    IF i > Len(s) THEN 0
    ELSE IF atStart /\ Kind(s[i]) = "label" /\ Val(s[i]) \in {KwHost, KwExpert, h, e} THEN i
    ELSE FirstLabelFrom(s, i + 1,
             Kind(s[i]) \in {"nl", "marker"} \/ (atStart /\ Kind(s[i]) = "space"), h, e)

\* position of the label of the first speaker-label line, 0 when there is none
FirstLabelLine(s, h, e) == FirstLabelFrom(s, 1, TRUE, h, e)

\* speaker, text and times of every segment, the slide left out
Spoken(segs) ==
    [i \in 1..Len(segs) |->
        <<segs[i].speaker, segs[i].text, segs[i].startTime, segs[i].endTime>>]

\* C23: every segment has speaker Host or Expert and a text that is trimmed and
\* not empty; a script without a speaker-label line yields no segment; the text
\* before the first speaker-label line yields no segment on its own and adds
\* none to the script's segments, which are those of the script cut at that line
C23_NoSpeechBeforeLabel ==
    LET n == FirstLabelLine(pText, pHost, pExpert) IN
    /\ \A i \in 1..Len(pSegments) :
          /\ pSegments[i].speaker \in {"Host", "Expert"}
          /\ pSegments[i].text # <<>>
          /\ Trim(pSegments[i].text) = pSegments[i].text
    /\ n = 0 => pSegments = <<>>
    /\ n > 0 =>
          /\ parseScriptToSegments(SubSeq(pText, 1, n - 1), pHost, pExpert) = <<>>
          /\ Spoken(pSegments)
                = Spoken(parseScriptToSegments(SubSeq(pText, n, Len(pText)), pHost, pExpert))

\* C23 witness: a typed script whose first line has words and no label, followed
\* by a labelled line that yields a segment
C23_Witness ==
    LET n == FirstLabelLine(pText, pHost, pExpert) IN
    /\ pTyped > 0
    /\ n > 1
    /\ \E k \in 1..(n - 1) : Kind(pText[k]) = "word"
    /\ pSegments # <<>>


(***************************************************************************)
(* The merged units as maximal runs of the segments passed in              *)
(***************************************************************************)
\* m is raw cut into consecutive runs, run j beginning at first[j]: every
\* segment of a run has the unit's speaker and slide, and the unit's text is the
\* run's texts joined by single blanks
RunsOf(raw, m, first) ==
    /\ first[1] = 1
    /\ \A j \in 1..(Len(m) - 1) : first[j] < first[j + 1]
    /\ \A j \in 1..Len(m) :
          LET last == IF j = Len(m) THEN Len(raw) ELSE first[j + 1] - 1 IN
          /\ \A k \in first[j]..last :
                /\ raw[k].speaker = m[j].speaker
                /\ raw[k].slideIndex = m[j].slideIndex
          /\ m[j].text = JoinTexts(SubSeq(raw, first[j], last))

\* C24: once generateSequencedSpeech has merged its input, the merged units are
\* consecutive runs of the input segments, each of one speaker and slide with
\* the texts space-joined, and adjacent units differ in speaker or in slide
C24_MaximalRuns ==
    seqPc # "call" =>
        /\ (mergedSegments = <<>>) <=> (rawSegments = <<>>)
        /\ mergedSegments # <<>> =>
              \E first \in [1..Len(mergedSegments) -> 1..Len(rawSegments)] :
                  RunsOf(rawSegments, mergedSegments, first)
        /\ \A j \in 1..(Len(mergedSegments) - 1) :
              \/ mergedSegments[j].speaker # mergedSegments[j + 1].speaker
              \/ mergedSegments[j].slideIndex # mergedSegments[j + 1].slideIndex

\* C24 witness: three segments were passed, the first two of one speaker and
\* slide and the third of the same speaker on another slide; two units came out
C24_Witness ==
    /\ seqPc = "request"
    /\ Len(rawSegments) = 3
    /\ Len(mergedSegments) = 2
    /\ rawSegments[1].text # <<>> /\ rawSegments[2].text # <<>>
    /\ rawSegments[2].speaker = rawSegments[3].speaker
    /\ rawSegments[2].slideIndex # rawSegments[3].slideIndex
    /\ mergedSegments[1].text = (rawSegments[1].text \o <<SPACE>>) \o rawSegments[2].text


(***************************************************************************)
(* Backoff delay of the retries                                            *)
(***************************************************************************)
\* C25: when a backoff sleep begins, attempt equals the number of requests of
\* this call so far, all of which failed; the delay is at least 2^attempt
\* seconds and less than one second more; and it is longer than the delay of
\* the call's previous backoff sleep
C25_BackoffDelayGrows ==
    [][ (seqPc' = "backoff" /\ seqPc # "backoff") =>
           /\ attempt' = call'.requests
           /\ attempt' = call'.transient + call'.nonTransient
           /\ call'.delay >= Pow2(attempt') * 1000
           /\ call'.delay < Pow2(attempt') * 1000 + 1000
           /\ call'.delay > call.delay ]_vars

\* C25 witness: the second backoff sleep of a call, with no jitter, after a
\* first one whose jitter could be the largest
C25_Witness ==
    /\ seqPc = "backoff"
    /\ attempt = 2
    /\ call.sleeps = 2
    /\ call.delay = 4000


(***************************************************************************)
(* Audio of an edited script                                               *)
(***************************************************************************)
\* C26: the stored download data, and the audio of the element while it plays,
\* were synthesized from the segments of the current text and name bindings
C26_AudioIsOfCurrentText ==
    LET current == parseScriptToSegments(text, hostName, expertName) IN
    /\ downloadData # None => downloadData[1].src = current
    /\ (isPlaying /\ audioElem # None) => audioElem[1].src = current


(***************************************************************************)
(* The generating flag of the cancellable play handler                     *)
(***************************************************************************)
\* C27: while the run that holds the current generation token is awaited, the
\* generating flag is set
C27_FlagHeldForCurrentRun ==
    \A r \in speechRuns : r.genId = generationId => isGenerating


(***************************************************************************)
(* Termination of a run                                                    *)
(***************************************************************************)
\* the run has returned audio with at least one segment, or has thrown
RunEnded ==
    /\ seqPc = "idle"
    /\ seqResult # None
    /\ \/ seqResult[1].kind = "ok" /\ seqResult[1].frames > 0 /\ seqResult[1].segments # <<>>
       \/ seqResult[1].kind = "threw" /\ seqResult[1].err # "none"

\* C28: a call issues at most maxRetries + 1 requests, the units are requested
\* in increasing order, each by one call, and a run that has started ends:
\* it returns audio and segments or it throws
C28_RunTerminates ==
    /\ [](call.requests <= maxRetries + 1)
    /\ [](\A i \in 1..(Len(issued) - 1) : issued[i] < issued[i + 1])
    /\ (seqPc \notin {"idle", "call"}) ~> RunEnded

\* C28 witness: the run is in the last backoff sleep a call can take, on a unit
\* after the first
C28_Witness ==
    /\ seqPc = "backoff"
    /\ attempt = maxRetries
    /\ Len(issued) > 1


(***************************************************************************)
(* The segments passed in                                                  *)
(***************************************************************************)
\* C29: from the call on, through the merge, every unit and the return or the
\* throw, the segments the caller passed keep their text, speaker, slideIndex,
\* startTime and endTime; the merged list is built from copies
C29_InputUnchanged ==
    [][ /\ seqPc # "idle" => rawSegments' = rawSegments
        /\ (seqPc = "call" /\ seqPc' # "call") =>
              mergedSegments' = MergeObjects(rawSegments).merged ]_vars

\* C29 witness: a run has returned audio after it merged the first two segments
\* passed in; the first output segment has the merged text and the exact end
\* time, the first input segment its own
C29_Witness ==
    /\ seqPc = "idle" /\ seqResult # None /\ seqResult[1].kind = "ok"
    /\ Len(rawSegments) >= 2
    /\ rawSegments[1].text # <<>>
    /\ seqResult[1].segments[1].text
          = (rawSegments[1].text \o <<SPACE>>) \o rawSegments[2].text
    /\ seqResult[1].segments[1].endTime # rawSegments[1].endTime


(***************************************************************************)
(* The 16-bit samples of the final track                                   *)
(***************************************************************************)
\* C30 as stated: a provider sample decoded and encoded again is itself
C30_Original == cPcm # None => cPcm[1] = cSample

\* C30: a provider sample x decoded to x / 32768 and encoded again is x when
\* x <= 0 and x - 1 when x > 0 (x * 32767 / 32768 lies strictly between x - 1
\* and x, and the store truncates)
C30_ReencodeLosesOneStep ==
    cPcm # None => cPcm[1] = IF cSample > 0 THEN cSample - 1 ELSE cSample

\* C30 witness: the largest sample came back as 32766
C30_Witness ==
    /\ cPcm # None
    /\ cSample = Int16Max
    /\ cPcm[1] = Int16Max - 1

====
